---- MODULE Spec2Model ----
(***************************************************************************)
(* Model of LibSource/ComplexShortArray.h: the fixed-point complex scalar  *)
(* ComplexShort, the array ComplexShortArray over it and the wide          *)
(* companion ComplexIntArray.                                              *)
(*                                                                         *)
(* Storage is modelled as two caller-provided buffers, one of ComplexShort *)
(* cells (mem16) and one of ComplexInt cells (mem32).  An array object is  *)
(* a handle [data, size]: data is the index of its first cell in the       *)
(* buffer (the pointer), size its element count.  Handles may alias.       *)
(*                                                                         *)
(* ARM_CORTEX is the compile-time flag of the source: TRUE selects the     *)
(* branches that call the hardware vector primitives, FALSE the scalar     *)
(* loops.                                                                  *)
(***************************************************************************)
EXTENDS Integers, Sequences, FiniteSets, TLC

VARIABLES
  ARM_CORTEX,  \* the build flag (#ifdef ARM_CORTEX), fixed by Init
  mem16,       \* buffer of ComplexShort cells: [0..HeapSize-1 -> [re, im]]
  mem32,       \* buffer of ComplexInt cells:   [0..HeapSize-1 -> [re, im]]
  z,           \* one ComplexShort value, the receiver of the scalar methods
  call,        \* the last call made: see Called
  nops         \* number of calls made so far

vars == <<ARM_CORTEX, mem16, mem32, z, call, nops>>

----------------------------------------------------------------------------
(* Bounds of the model *)

HeapSize == 2   \* cells in each buffer
MaxOps == 1     \* calls per run
MaxCoord == 4   \* largest |re|, |im| of the scalar values drawn

----------------------------------------------------------------------------
(* Machine integers *)

INT32_MAX == 2147483647
INT32_MIN == (-INT32_MAX) - 1
INT16_MAX == 32767
INT16_MIN == (-INT16_MAX) - 1
Q16 == 65536    \* 2^16: the distance between the q15 and the q31 format

\* a + b lies in the int32 range (computed without leaving it)
FitsInt32(a, b) ==
  IF b >= 0 THEN a <= INT32_MAX - b ELSE a >= INT32_MIN - b

\* (int16_t)x for an int32 x: the low 16 bits, sign-extended
CastInt16(x) ==
  LET r == x % Q16 IN IF r > INT16_MAX THEN r - Q16 ELSE r

\* arm_q15_to_q31 on one word: the q15 value in the high half-word
arm_q15_to_q31(x) == x * Q16

\* arm_q31_to_q15 on one word: the high half-word (arithmetic shift by 16)
arm_q31_to_q15(x) == x \div Q16

\* arm_add_q31 on one word: saturating 32-bit addition
arm_add_q31(a, b) ==
  IF FitsInt32(a, b) THEN a + b
  ELSE IF b >= 0 THEN INT32_MAX ELSE INT32_MIN

\* a + b on two int32_t in the scalar loop.  Signed overflow is undefined in
\* C++: ovf is the outcome the build produces, two's-complement wrap-around
\* or clamping; when the sum fits, it is the sum.
IntAdd(a, b, ovf) ==
  IF FitsInt32(a, b) THEN a + b
  ELSE IF ovf = "wrap"
       THEN IF b >= 0 THEN (a + INT32_MIN) + (b + INT32_MIN)
                      ELSE (a - INT32_MIN) + (b - INT32_MIN)
       ELSE IF b >= 0 THEN INT32_MAX ELSE INT32_MIN

Overflows == {"wrap", "clamp"}

----------------------------------------------------------------------------
(* Array handles *)

Cells == 0 .. (HeapSize - 1)

\* ComplexShortArray(array, size) / ComplexIntArray(array, size): a handle
\* over caller-provided storage that lies inside the buffer
Arrays ==
  {h \in [data : Cells, size : 1 .. HeapSize] : h.data + h.size <= HeapSize}

\* (mutant of ElemAddr: the index is dropped)
ElemAddrFirst(a, index) == a.data

\* operator[]: the cell that element index of array a designates
ElemAddr(a, index) == a.data + index

\* the cells the first n elements of a occupy
Span(a, n) == ElemAddr(a, 0) .. ElemAddr(a, n - 1)

\* Two buffers passed to one call are either the same pointer or do not
\* overlap on the n elements the call walks
SameOrDisjoint(a, b, n) ==
  a.data = b.data \/ a.data + n <= b.data \/ b.data + n <= a.data

----------------------------------------------------------------------------
(* ComplexIntArray *)

\* the values a ComplexShort cell holds in an initial state
Samples16 ==
  { [re |-> 1, im |-> -1],
    [re |-> 16384, im |-> INT16_MAX],
    [re |-> 16384, im |-> INT16_MIN] }

\* the value ComplexInt cell c holds in an initial state: what the storage
\* handed to the constructor happens to contain
Initial32(c) ==
  IF c % 2 = 0 THEN [re |-> INT32_MAX, im |-> INT32_MIN]
  ELSE [re |-> 0, im |-> 0]

\* the scalar loop of copyFrom, from element n on
RECURSIVE CopyFromLoop(_, _, _, _, _)
CopyFromLoop(m32, m16, this, operand2, n) ==
  IF n >= this.size THEN m32
  ELSE CopyFromLoop(
         [m32 EXCEPT ![ElemAddr(this, n)] =
            [re |-> m16[ElemAddr(operand2, n)].re,
             im |-> m16[ElemAddr(operand2, n)].im]],
         m16, this, operand2, n + 1)

\* ComplexIntArray::copyFrom(ComplexShortArray operand2): both buffers after
\* the call
copyFrom(arm, m32, m16, this, operand2) ==
  IF arm
  THEN \* arm_q15_to_q31(operand2.getData(), data, size * 2)
       [m32 |-> [c \in Cells |->
                   IF c \in Span(this, this.size)
                   THEN LET src == m16[ElemAddr(operand2, c - this.data)]
                        IN [re |-> arm_q15_to_q31(src.re),
                            im |-> arm_q15_to_q31(src.im)]
                   ELSE m32[c]],
        m16 |-> m16]
  ELSE [m32 |-> CopyFromLoop(m32, m16, this, operand2, 0), m16 |-> m16]

\* the scalar loop of copyTo, from element n on: it assigns to data[n]
RECURSIVE CopyToLoop(_, _, _, _, _)
CopyToLoop(m32, m16, this, operand2, n) ==
  IF n >= this.size THEN m32
  ELSE CopyToLoop(
         [m32 EXCEPT ![ElemAddr(this, n)] =
            [re |-> CastInt16(m16[ElemAddr(operand2, n)].re),
             im |-> CastInt16(m16[ElemAddr(operand2, n)].im)]],
         m16, this, operand2, n + 1)

\* ComplexIntArray::copyTo(ComplexShortArray operand2): both buffers after
\* the call
copyTo(arm, m32, m16, this, operand2) ==
  IF arm
  THEN \* arm_q31_to_q15(data, operand2.getData(), size * 2)
       [m32 |-> m32,
        m16 |-> [c \in Cells |->
                   IF c \in Span(operand2, this.size)
                   THEN LET src == m32[ElemAddr(this, c - operand2.data)]
                        IN [re |-> arm_q31_to_q15(src.re),
                            im |-> arm_q31_to_q15(src.im)]
                   ELSE m16[c]]]
  ELSE [m32 |-> CopyToLoop(m32, m16, this, operand2, 0), m16 |-> m16]

\* (mutant of add: the sums are assigned to data[n], not destination[n])
addIntoThis(arm, ovf, m32, this, operand2, destination) ==
  [c \in Cells |->
     IF c \in this.data .. (this.data + this.size - 1)
     THEN LET a == m32[c]
              b == m32[operand2.data + (c - this.data)]
          IN IF arm
             THEN [re |-> arm_add_q31(a.re, b.re), im |-> arm_add_q31(a.im, b.im)]
             ELSE [re |-> IntAdd(a.re, b.re, ovf), im |-> IntAdd(a.im, b.im, ovf)]
     ELSE m32[c]]

\* the scalar loop of add, from element n on
RECURSIVE AddLoop(_, _, _, _, _, _)
AddLoop(m32, this, operand2, destination, ovf, n) ==
  IF n >= this.size THEN m32
  ELSE AddLoop(
         [m32 EXCEPT ![ElemAddr(destination, n)] =
            [re |-> IntAdd(m32[ElemAddr(this, n)].re,
                           m32[ElemAddr(operand2, n)].re, ovf),
             im |-> IntAdd(m32[ElemAddr(this, n)].im,
                           m32[ElemAddr(operand2, n)].im, ovf)]],
         this, operand2, destination, ovf, n + 1)

\* ComplexIntArray::add(operand2, destination): the buffer of ComplexInt
\* cells after the call
add(arm, ovf, m32, this, operand2, destination) ==
  IF arm
  THEN \* arm_add_q31(data, operand2.getData(), destination.getData(), size*2)
       [c \in Cells |->
          IF c \in Span(destination, this.size)
          THEN LET a == m32[ElemAddr(this, c - destination.data)]
                   b == m32[ElemAddr(operand2, c - destination.data)]
               IN [re |-> arm_add_q31(a.re, b.re), im |-> arm_add_q31(a.im, b.im)]
          ELSE m32[c]]
  ELSE AddLoop(m32, this, operand2, destination, ovf, 0)

\* ComplexIntArray::add(operand2): add(operand2, *this)
add1(arm, ovf, m32, this, operand2) ==
  add(arm, ovf, m32, this, operand2, this)

----------------------------------------------------------------------------
(* ComplexShortArray *)

\* (mutant of EqualsLoop: the comparison of im is dropped)
RECURSIVE EqualsLoopReOnly(_, _, _, _)
EqualsLoopReOnly(m16, this, other, n) ==
  IF n >= this.size THEN [result |-> TRUE, compared |-> n]
  ELSE IF m16[this.data + n].re # m16[other.data + n].re
       THEN [result |-> FALSE, compared |-> n + 1]
       ELSE EqualsLoopReOnly(m16, this, other, n + 1)

\* the loop of equals, from element n on: [result, compared], compared being
\* the number of elements the loop has looked at when it returns
RECURSIVE EqualsLoop(_, _, _, _)
EqualsLoop(m16, this, other, n) ==
  IF n >= this.size THEN [result |-> TRUE, compared |-> n]
  ELSE IF \/ m16[ElemAddr(this, n)].re # m16[ElemAddr(other, n)].re
          \/ m16[ElemAddr(this, n)].im # m16[ElemAddr(other, n)].im
       THEN [result |-> FALSE, compared |-> n + 1]
       ELSE EqualsLoop(m16, this, other, n + 1)

\* ComplexShortArray::equals(other)
equals(m16, this, other) ==
  IF this.size # other.size THEN [result |-> FALSE, compared |-> 0]
  ELSE EqualsLoop(m16, this, other, 0)

\* ComplexShortArray::subArray(offset, length)
subArray(this, offset, length) ==
  [data |-> this.data + offset, size |-> length]

\* a[index] = value through the reference operator[] returns
SetElement(m16, a, index, value) ==
  [m16 EXCEPT ![ElemAddr(a, index)] = value]

----------------------------------------------------------------------------
(* The calls *)

\* the indices a method of `this` walks: for(n = 0; n < size; n++), and
\* size * 2 words handed to a vector primitive
Walked(this) == 0 .. (this.size - 1)

\* the method of `this` touches an element of `other` that `other` lacks
OutOfBounds(this, other) == \E n \in Walked(this) : n >= other.size

\* the elements walked on `other` lie inside the buffer `other` points into;
\* a call that leaves the buffer is not modelled
Walks(this, other) == other.data + this.size <= HeapSize

\* what `call` records: the method, what it returned (FALSE for void),
\* whether the documented size precondition held (destination.size >=
\* operand.size; operand2.size = size for add), and whether it touched an
\* element outside the bounds of an array
Called(op, ret, pre, oob) ==
  [op |-> op, ret |-> ret, pre |-> pre, oob |-> oob]

\* the outcomes of a signed overflow this build can show: the vector
\* primitive never overflows, so the choice is idle under ARM_CORTEX
BuildOverflows == IF ARM_CORTEX THEN {"wrap"} ELSE Overflows

Init ==
  /\ ARM_CORTEX \in BOOLEAN
  /\ mem16 \in [Cells -> Samples16]
  /\ mem32 = [c \in Cells |-> Initial32(c)]
  /\ z = [re |-> 0, im |-> 0]
  /\ call = Called("none", FALSE, TRUE, FALSE)
  /\ nops = 0

CopyFrom(this, operand2) ==
  /\ nops < MaxOps
  /\ Walks(this, operand2)
  /\ LET r == copyFrom(ARM_CORTEX, mem32, mem16, this, operand2)
     IN mem32' = r.m32 /\ mem16' = r.m16
  /\ call' = Called("copyFrom", FALSE, this.size >= operand2.size,
                    OutOfBounds(this, operand2))
  /\ nops' = nops + 1
  /\ UNCHANGED <<ARM_CORTEX, z>>

CopyTo(this, operand2) ==
  /\ nops < MaxOps
  /\ Walks(this, operand2)
  /\ LET r == copyTo(ARM_CORTEX, mem32, mem16, this, operand2)
     IN mem32' = r.m32 /\ mem16' = r.m16
  /\ call' = Called("copyTo", FALSE, operand2.size >= this.size,
                    OutOfBounds(this, operand2))
  /\ nops' = nops + 1
  /\ UNCHANGED <<ARM_CORTEX, z>>

Add(this, operand2, destination) ==
  /\ nops < MaxOps
  /\ Walks(this, operand2) /\ Walks(this, destination)
  /\ SameOrDisjoint(destination, this, this.size)
  /\ SameOrDisjoint(destination, operand2, this.size)
  /\ \E ovf \in BuildOverflows :
       mem32' = add(ARM_CORTEX, ovf, mem32, this, operand2, destination)
  /\ call' = Called("add", FALSE,
                    operand2.size = this.size /\ destination.size >= this.size,
                    OutOfBounds(this, operand2) \/ OutOfBounds(this, destination))
  /\ nops' = nops + 1
  /\ UNCHANGED <<ARM_CORTEX, mem16, z>>

AddInPlace(this, operand2) ==
  /\ nops < MaxOps
  /\ Walks(this, operand2)
  /\ SameOrDisjoint(this, operand2, this.size)
  /\ \E ovf \in BuildOverflows :
       mem32' = add1(ARM_CORTEX, ovf, mem32, this, operand2)
  /\ call' = Called("add1", FALSE, operand2.size = this.size,
                    OutOfBounds(this, operand2))
  /\ nops' = nops + 1
  /\ UNCHANGED <<ARM_CORTEX, mem16, z>>

Equals(this, other) ==
  /\ nops < MaxOps
  /\ call' = Called("equals", equals(mem16, this, other), TRUE, FALSE)
  /\ nops' = nops + 1
  /\ UNCHANGED <<ARM_CORTEX, mem16, mem32, z>>

\* s = a.subArray(offset, length); s[index] = value
SubArrayWrite(a, offset, length, index, value) ==
  /\ nops < MaxOps
  /\ subArray(a, offset, length) \in Arrays
  /\ index < length
  /\ mem16' = SetElement(mem16, subArray(a, offset, length), index, value)
  /\ call' = Called("subArrayWrite", FALSE, offset + length <= a.size, FALSE)
  /\ nops' = nops + 1
  /\ UNCHANGED <<ARM_CORTEX, mem32, z>>

Next ==
  \/ \E this \in Arrays, operand2 \in Arrays : CopyFrom(this, operand2)
  \/ \E this \in Arrays, operand2 \in Arrays : CopyTo(this, operand2)
  \/ \E this \in Arrays, operand2 \in Arrays, destination \in Arrays :
       Add(this, operand2, destination)
  \/ \E this \in Arrays, operand2 \in Arrays : AddInPlace(this, operand2)
  \/ \E this \in Arrays, other \in Arrays : Equals(this, other)
  \/ \E a \in Arrays, offset \in Cells, length \in 1 .. HeapSize,
        index \in Cells, value \in Samples16 :
       SubArrayWrite(a, offset, length, index, value)

Spec == Init /\ [][Next]_vars

----------------------------------------------------------------------------
(* Properties of the arrays.  Each quantifies over the calls that can be   *)
(* made in the current state and speaks of the buffers those calls leave.  *)

\* the first n elements of a and of b occupy the same cells or disjoint ones
Separate(a, b, n) == a = b \/ a.data + n <= b.data \/ b.data + n <= a.data

\* d is the exact sum of a and b
ExactSum(a, b, d) == FitsInt32(a, b) /\ d = a + b

\* C1: widening a 16-bit array A into a 32-bit array W with copyFrom and
\* narrowing W into a 16-bit array A2 of the same size with copyTo leaves
\* A2.equals(A) true, whatever W and A2 held before.
C1_RoundTrip ==
  \A W \in Arrays, A \in Arrays, A2 \in Arrays :
    (A.size = W.size /\ A2.size = W.size /\ Separate(A, A2, W.size)) =>
      LET w == copyFrom(ARM_CORTEX, mem32, mem16, W, A)
          r == copyTo(ARM_CORTEX, w.m32, w.m16, W, A2)
      IN equals(r.m16, A2, A).result

\* a narrowing of the 32-bit word x: its high half-word or its low one
Narrowings(x) == {x \div Q16, CastInt16(x)}

\* C2: copyTo(dest16) writes the narrowed value of this[i] to dest16[i] for
\* every i < size and leaves the 32-bit array unchanged; copyFrom(src16)
\* writes only the 32-bit array and leaves src16 unchanged.
C2_CopyFrame ==
  \A W \in Arrays, S \in Arrays :
    S.size >= W.size =>
      /\ LET r == copyTo(ARM_CORTEX, mem32, mem16, W, S)
         IN /\ r.m32 = mem32
            /\ \A i \in 0 .. (W.size - 1) :
                 /\ r.m16[S.data + i].re \in Narrowings(mem32[W.data + i].re)
                 /\ r.m16[S.data + i].im \in Narrowings(mem32[W.data + i].im)
      /\ LET r == copyFrom(ARM_CORTEX, mem32, mem16, W, S)
         IN /\ r.m16 = mem16
            /\ \A c \in Cells :
                 (c < W.data \/ c >= W.data + W.size) => r.m32[c] = mem32[c]

\* C3: copyFrom, copyTo and add leave the same contents whether the
\* hardware branch (ARM_CORTEX) or the scalar loop is compiled.
C3_PathsAgree ==
  \A this \in Arrays, operand2 \in Arrays :
    (operand2.size = this.size) =>
      /\ copyFrom(TRUE, mem32, mem16, this, operand2)
           = copyFrom(FALSE, mem32, mem16, this, operand2)
      /\ copyTo(TRUE, mem32, mem16, this, operand2)
           = copyTo(FALSE, mem32, mem16, this, operand2)
      /\ \A destination \in Arrays, ovf \in Overflows :
           (/\ destination.size >= this.size
            /\ SameOrDisjoint(destination, this, this.size)
            /\ SameOrDisjoint(destination, operand2, this.size)) =>
             add(TRUE, ovf, mem32, this, operand2, destination)
               = add(FALSE, ovf, mem32, this, operand2, destination)

\* C4: for 16-bit arrays A and B of equal size, widening each into a 32-bit
\* array with copyFrom and adding the two yields at every index the exact
\* sum of the two widened values, in re and in im.
C4_WidenedSumExact ==
  \A A \in Arrays, B \in Arrays, W1 \in Arrays, W2 \in Arrays, D \in Arrays :
    (/\ B.size = A.size /\ W1.size = A.size /\ W2.size = A.size
     /\ D.size = A.size
     /\ (W1.data + A.size <= W2.data \/ W2.data + A.size <= W1.data)
     /\ Separate(D, W1, A.size) /\ Separate(D, W2, A.size)) =>
      LET m1 == copyFrom(ARM_CORTEX, mem32, mem16, W1, A).m32
          m2 == copyFrom(ARM_CORTEX, m1, mem16, W2, B).m32
      IN \A ovf \in BuildOverflows :
           LET m3 == add(ARM_CORTEX, ovf, m2, W1, W2, D)
           IN \A i \in 0 .. (A.size - 1) :
                /\ ExactSum(m2[W1.data + i].re, m2[W2.data + i].re,
                            m3[D.data + i].re)
                /\ ExactSum(m2[W1.data + i].im, m2[W2.data + i].im,
                            m3[D.data + i].im)

\* what equals returns on any two arrays of the current buffer
C5_EqualsResult ==
  \A a \in Arrays, b \in Arrays :
    LET r == equals(mem16, a, b)
    IN /\ r.result =
            (/\ a.size = b.size
             /\ \A n \in 0 .. (a.size - 1) :
                  /\ mem16[a.data + n].re = mem16[b.data + n].re
                  /\ mem16[a.data + n].im = mem16[b.data + n].im)
       /\ a.size # b.size => r.compared = 0

\* C5: equals(other) returns true exactly when the sizes are the same and
\* every element has the same re and the same im; when the sizes differ it
\* returns false without comparing an element; it modifies neither array.
C5_Equals ==
  /\ []C5_EqualsResult
  /\ [][call'.op = "equals" =>
          /\ mem16' = mem16 /\ mem32' = mem32
          /\ \E a \in Arrays, b \in Arrays :
               call'.ret = equals(mem16, a, b)]_vars

\* an equals call on two arrays of one size has compared elements and
\* returned false, and the buffer also holds two arrays of different sizes
C5_Witness ==
  /\ call.op = "equals"
  /\ ~call.ret.result /\ call.ret.compared >= 1
  /\ \E a \in Arrays, b \in Arrays : a.size # b.size

\* C8: A.subArray(offset, length) is a handle of size length over A's own
\* storage from offset on: A.subArray(0, A.size).equals(A), and writing
\* element i < length of the sub-array changes element offset+i of A and
\* nothing else.
C8_SubArray ==
  \A A \in Arrays :
    /\ equals(mem16, subArray(A, 0, A.size), A).result
    /\ \A offset \in 0 .. (A.size - 1), length \in 1 .. A.size :
         offset + length <= A.size =>
           LET s == subArray(A, offset, length)
           IN /\ s.size = length
              /\ Span(s, s.size) \subseteq Span(A, A.size)
              /\ \A i \in 0 .. (length - 1), v \in Samples16 :
                   LET m == SetElement(mem16, s, i, v)
                   IN /\ m[A.data + offset + i] = v
                      /\ \A c \in Cells :
                           c # A.data + offset + i => m[c] = mem16[c]

\* a write through a sub-array has been made, within its parent, and the
\* buffer holds an array with a sub-array that starts past its first element
C8_Witness ==
  /\ call.op = "subArrayWrite" /\ call.pre
  /\ \E A \in Arrays, offset \in 1 .. HeapSize :
       /\ offset < A.size
       /\ subArray(A, offset, A.size - offset) \in Arrays
       /\ \E v \in Samples16 : mem16[A.data + offset] = v /\ mem16[A.data] # v

\* C9: when add, copyFrom or copyTo is called with destination.size >=
\* operand.size (and operand2.size = size for add), every element it reads
\* or writes lies inside the bounds of its array.
C9_BoundsSafe ==
  (call.op \in {"add", "add1", "copyFrom", "copyTo"} /\ call.pre) => ~call.oob

\* the buffer of ComplexInt cells add has to leave: each walked element of
\* destination holds the sum, saturated where sat says so, the rest is as
\* before
AddPost(m, this, operand2, destination, exact) ==
  /\ \A i \in 0 .. (this.size - 1) :
       LET a == mem32[this.data + i]
           b == mem32[operand2.data + i]
           d == m[destination.data + i]
       IN IF exact
          THEN ExactSum(a.re, b.re, d.re) /\ ExactSum(a.im, b.im, d.im)
          ELSE /\ FitsInt32(a.re, b.re) => d.re = a.re + b.re
               /\ FitsInt32(a.im, b.im) => d.im = a.im + b.im
               /\ (ARM_CORTEX /\ ~FitsInt32(a.re, b.re)) =>
                    d.re = IF b.re >= 0 THEN INT32_MAX ELSE INT32_MIN
               /\ (ARM_CORTEX /\ ~FitsInt32(a.im, b.im)) =>
                    d.im = IF b.im >= 0 THEN INT32_MAX ELSE INT32_MIN
  /\ \A c \in Cells :
       (c < destination.data \/ c >= destination.data + this.size) =>
         m[c] = mem32[c]

AddClaim(exact) ==
  \A this \in Arrays, operand2 \in Arrays, ovf \in BuildOverflows :
    operand2.size = this.size =>
      /\ \A destination \in Arrays :
           (/\ destination.size >= this.size
            /\ SameOrDisjoint(destination, this, this.size)
            /\ SameOrDisjoint(destination, operand2, this.size)) =>
             \A m \in {add(ARM_CORTEX, ovf, mem32, this, operand2, destination)} :
               AddPost(m, this, operand2, destination, exact)
      /\ SameOrDisjoint(this, operand2, this.size) =>
           \A m \in {add1(ARM_CORTEX, ovf, mem32, this, operand2)} :
             AddPost(m, this, operand2, this, exact)

\* C10 (as stated): add(operand2, destination) sets destination[i] to
\* this[i] + operand2[i] in re and im for every i < size, leaves the other
\* elements of destination untouched, also when destination is this or
\* operand2, and add(operand2) is add(operand2, this).
C10_AddExact == AddClaim(TRUE)

\* C10 (amended): the same, the sum being this[i] + operand2[i] whenever
\* that lies in the int32 range; outside it the hardware branch leaves the
\* nearest int32 limit.  destination starts where this or operand2 starts,
\* or overlaps neither.
C10_AddInRange == AddClaim(FALSE)

\* an add has been made, a cell holds the two int32 limits (so that adding
\* it to itself leaves the int32 range), and an add into a destination that
\* starts where this does and is larger than this changes the buffer
C10_Witness ==
  /\ call.op \in {"add", "add1"}
  /\ \E this \in Arrays, operand2 \in Arrays, destination \in Arrays :
       /\ operand2.size = this.size /\ destination.size > this.size
       /\ destination.data = this.data
       /\ \E ovf \in BuildOverflows :
            add(ARM_CORTEX, ovf, mem32, this, operand2, destination) # mem32
  /\ \E c \in Cells : mem32[c].re = INT32_MAX /\ mem32[c].im = INT32_MIN

----------------------------------------------------------------------------
(* ComplexShort *)

\* floor of the square root of n >= 0
ISqrt(n) == CHOOSE k \in 0 .. n : k * k <= n /\ (k + 1) * (k + 1) > n

\* arm_cmplx_mag_q15 on one sample {re, im} in 1.15 format: the magnitude
\* in 2.14 format ("function above returns 2.14"), half the number of units
arm_cmplx_mag_q15(re, im) == ISqrt(re * re + im * im) \div 2

\* int16_t(sqrtf(n) + 0.5): the integer k with k - 1/2 <= sqrt(n) < k + 1/2
RoundSqrt(n) ==
  CHOOSE k \in 0 .. n :
    /\ k = 0 \/ (2 * k - 1) * (2 * k - 1) <= 4 * n
    /\ (2 * k + 1) * (2 * k + 1) > 4 * n

\* ComplexShort::getMagnitude()
getMagnitude(arm, v) ==
  IF arm
  THEN \* out = out >> 1
       CastInt16(arm_cmplx_mag_q15(v.re, v.im) \div 2)
  ELSE CastInt16(RoundSqrt(v.re * v.re + v.im * v.im))

\* A phase is kept as a direction: [c, s], not both 0, stands for the angle
\* atan2(s, c), whose cosine is c / sqrt(c*c + s*s) and whose sine is
\* s / sqrt(c*c + s*s).
\* ComplexShort::getPhase(): atan2(im, re), which is 0 for {0, 0}
getPhase(v) ==
  IF v.re = 0 /\ v.im = 0 THEN [c |-> 1, s |-> 0]
  ELSE [c |-> v.re, s |-> v.im]

\* (int16_t)(q / sqrt(n) + 0.5) for integers q and n > 0: one half is added
\* and the conversion drops the fraction, towards zero
RoundScaled(q, n) ==
  IF q >= 0
  THEN CHOOSE k \in 0 .. (q + 1) :
         /\ k = 0 \/ (2 * k - 1) * (2 * k - 1) * n <= 4 * q * q
         /\ (2 * k + 1) * (2 * k + 1) * n > 4 * q * q
  ELSE - (CHOOSE k \in 0 .. (-q) :
            /\ k = 0 \/ (2 * k + 1) * (2 * k + 1) * n <= 4 * q * q
            /\ (2 * k + 3) * (2 * k + 3) * n > 4 * q * q)

\* ComplexShort::setPolar(magnitude, phase): the value it leaves
setPolar(magnitude, phase) ==
  LET n == phase.c * phase.c + phase.s * phase.s
  IN [re |-> CastInt16(RoundScaled(magnitude * phase.c, n)),
      im |-> CastInt16(RoundScaled(magnitude * phase.s, n))]

\* ComplexShort::setPhase(phase) on the value v
setPhase(arm, v, phase) == setPolar(getMagnitude(arm, v), phase)

\* a setMagnitude that does not read the phase back from the value
setMagnitudeOnAxis(v, magnitude) == setPolar(magnitude, [c |-> 1, s |-> 0])

\* ComplexShort::setMagnitude(magnitude) on the value v
setMagnitude(v, magnitude) == setPolar(magnitude, getPhase(v))

\* the values, magnitudes and phases drawn as inputs
Coords == (-MaxCoord) .. MaxCoord
Magnitudes == 0 .. MaxCoord
Phases == {getPhase([re |-> x, im |-> y]) : x \in Coords, y \in Coords}

InitScalar ==
  /\ ARM_CORTEX \in BOOLEAN
  /\ z \in [re : Coords, im : Coords]
  /\ mem16 = [c \in Cells |-> [re |-> 0, im |-> 0]]
  /\ mem32 = [c \in Cells |-> [re |-> 0, im |-> 0]]
  /\ call = Called("none", 0, TRUE, FALSE)
  /\ nops = 0

GetMagnitude ==
  /\ call' = Called("getMagnitude", getMagnitude(ARM_CORTEX, z), TRUE, FALSE)
  /\ UNCHANGED <<ARM_CORTEX, mem16, mem32, z, nops>>

SetPolar(magnitude, phase) ==
  /\ z' = setPolar(magnitude, phase)
  /\ call' = Called("setPolar", 0, TRUE, FALSE)
  /\ UNCHANGED <<ARM_CORTEX, mem16, mem32, nops>>

SetPhase(phase) ==
  /\ z' = setPhase(ARM_CORTEX, z, phase)
  /\ call' = Called("setPhase", 0, TRUE, FALSE)
  /\ UNCHANGED <<ARM_CORTEX, mem16, mem32, nops>>

SetMagnitude(magnitude) ==
  /\ z' = setMagnitude(z, magnitude)
  /\ call' = Called("setMagnitude", 0, TRUE, FALSE)
  /\ UNCHANGED <<ARM_CORTEX, mem16, mem32, nops>>

\* z.setPhase(z.getPhase())
RewritePhase ==
  /\ z' = setPhase(ARM_CORTEX, z, getPhase(z))
  /\ call' = Called("rewritePhase", 0, TRUE, FALSE)
  /\ UNCHANGED <<ARM_CORTEX, mem16, mem32, nops>>

NextScalar ==
  \/ GetMagnitude
  \/ \E magnitude \in Magnitudes, phase \in Phases : SetPolar(magnitude, phase)
  \/ \E phase \in Phases : SetPhase(phase)
  \/ \E magnitude \in Magnitudes : SetMagnitude(magnitude)
  \/ RewritePhase

SpecScalar == InitScalar /\ [][NextScalar]_vars

\* C6: getMagnitude() returns the non-negative integer nearest to
\* sqrt(re^2 + im^2), in the units of re and im; {3, 4} has magnitude 5.
C6_Magnitude ==
  call.op = "getMagnitude" =>
    LET n == z.re * z.re + z.im * z.im
        r == call.ret
    IN /\ r >= 0
       /\ r = 0 \/ (2 * r - 1) * (2 * r - 1) <= 4 * n
       /\ (2 * r + 1) * (2 * r + 1) > 4 * n
       /\ (z.re = 3 /\ z.im = 4) => r = 5

\* C7: v.setPhase(v.getPhase()) leaves re and im as they were, for every
\* value v.
C7_PhaseRoundTrip ==
  [][call'.op = "rewritePhase" => (z'.re = z.re /\ z'.im = z.im)]_vars

\* the value left by v.setMagnitude(m); v.setPhase(p)
MagnitudeThenPhase(v, m, p) == setPhase(ARM_CORTEX, setMagnitude(v, m), p)

\* what the setters leave on the current value, for every argument
C11_Reread ==
  /\ \A p \in Phases :
       setPhase(ARM_CORTEX, z, p) = setPolar(getMagnitude(ARM_CORTEX, z), p)
  /\ \A m \in Magnitudes :
       /\ setMagnitude(z, m) = setPolar(m, getPhase(z))
       /\ \A p \in Phases :
            MagnitudeThenPhase(z, m, p) =
              setPolar(getMagnitude(ARM_CORTEX, setPolar(m, getPhase(z))), p)
  /\ \E v \in [re : Coords, im : Coords], m \in Magnitudes, p \in Phases :
       MagnitudeThenPhase(v, m, p) # setPolar(m, p)

\* C11: setPhase(p) leaves the value setPolar(m0, p), m0 being getMagnitude()
\* of the value before the call; setMagnitude(m) leaves setPolar(m, p0), p0
\* being getPhase() of the value before the call; so setMagnitude(m) followed
\* by setPhase(p) uses the magnitude read back from the intermediate value,
\* and for some value, m and p it differs from setPolar(m, p).
C11_ComposeByReread ==
  /\ []C11_Reread
  /\ [][/\ call'.op = "setPhase" =>
            \E p \in Phases :
              z' = setPolar(getMagnitude(ARM_CORTEX, z), p)
        /\ call'.op = "setMagnitude" =>
            \E m \in Magnitudes : z' = setPolar(m, getPhase(z))]_vars

\* a setter has run and left a value on which setMagnitude(m); setPhase(p)
\* differs from setPolar(m, p)
C11_Witness ==
  /\ call.op \in {"setPhase", "setMagnitude"}
  /\ \E m \in Magnitudes, p \in Phases :
       MagnitudeThenPhase(z, m, p) # setPolar(m, p)

====
